---------------------------- MODULE Spec2Model ----------------------------
(* A model of `gantry run` (src/gantry/__main__.py): option validation,     *)
(* cluster-pattern expansion, spec construction, submit-with-retry, the     *)
(* optional preemption request, the watch phase and its interruption and    *)
(* timeout handlers.  Text is modelled as sequences of one-character        *)
(* strings, so that splitting, wildcard matching and concatenation are      *)
(* computed as the code computes them.                                      *)
EXTENDS Integers, Sequences, FiniteSets, TLC

VARIABLES
    opt,          \* the command-line options `run` was called with (never assigned)
    world,        \* the backend / environment the run meets (never assigned)
    pc,           \* position of `run`
    budget,       \* local `budget` (may be filled by the prompt)
    env_vars,     \* local `env_vars`
    env_secrets,  \* local `env_secrets`
    mounts,       \* local `mounts`
    cluster,      \* local `cluster` (patterns at first, the resolved list after validation)
    priority,     \* local `priority` (after defaulting)
    spec,         \* arguments handed to util.build_experiment_spec, NoSpec before
    spec2,        \* the same arguments in a second execution of run with the same
                  \* options, answers and catalog, NoSpec before
    name,         \* local `name`
    name_prefix,  \* local `name_prefix`
    createCalls,  \* number of beaker.experiment.create calls issued
    tried,        \* the names passed to beaker.experiment.create so far
    experiment,   \* local `experiment` (the accepted create call's result), NoExp before
    calls,        \* backend calls other than rejected creates, in order
    caught,       \* exception caught by the try of the watch phase, "None" if none
    displayed,    \* util.display_results was called
    sigs,         \* signals delivered so far, each with the statement it arrived at
    exitCode,     \* process exit status, -1 while running
    error,        \* the exception that ended the run, NoError if none
    traceback     \* a stack trace was printed on exit

vars == <<opt, world, pc, budget, env_vars, env_secrets, mounts, cluster, priority,
          spec, spec2, name, name_prefix, createCalls, tried, experiment, calls,
          caught, displayed, sigs, exitCode, error, traceback>>

----------------------------------------------------------------------------
(* Bounds of the model *)

\* finite backends reject at most this many create calls before accepting one
MaxConflicts == 2

\* the create-call counter saturates here; a finite backend never reaches it
CreateCap == MaxConflicts + 2

----------------------------------------------------------------------------
(* Text helpers *)

Range(s) == {s[i] : i \in 1..Len(s)}

\* index of the first occurrence of character c in s, 0 if none
RECURSIVE FirstIndex(_, _, _)
FirstIndex(s, c, i) ==
    IF i > Len(s) THEN 0
    ELSE IF s[i] = c THEN i
    ELSE FirstIndex(s, c, i + 1)

\* Python's s.split(c) for a one-character separator: the list of fields
RECURSIVE Split(_, _)
Split(s, c) ==
    LET i == FirstIndex(s, c, 1)
    IN  IF i = 0 THEN <<s>>
        ELSE <<SubSeq(s, 1, i - 1)>> \o Split(SubSeq(s, i + 1, Len(s)), c)

\* fnmatch.fnmatch(n, pat) on a case-sensitive file system: `*` matches any
\* run of characters, `?` exactly one, every other character itself
RECURSIVE fnmatch(_, _)
fnmatch(n, pat) ==
    IF pat = <<>> THEN n = <<>>
    ELSE IF Head(pat) = "*"
         THEN \/ fnmatch(n, Tail(pat))
              \/ n # <<>> /\ fnmatch(Tail(n), pat)
    ELSE IF n = <<>> THEN FALSE
    ELSE IF Head(pat) = "?" THEN fnmatch(Tail(n), Tail(pat))
    ELSE Head(pat) = Head(n) /\ fnmatch(Tail(n), Tail(pat))

\* all orderings of a finite set (the order of list(set(...)) is not fixed)
RECURSIVE Orderings(_)
Orderings(S) ==
    IF S = {} THEN {<<>>}
    ELSE UNION {{<<x>> \o t : t \in Orderings(S \ {x})} : x \in S}

----------------------------------------------------------------------------
(* Values *)

NoSpec ==
    [built |-> FALSE, clusters |-> <<>>, priority |-> "None",
     host_networking |-> FALSE, leader_selection |-> FALSE, replicas |-> <<>>,
     env |-> <<>>, env_secrets |-> <<>>, mounts |-> <<>>, budget |-> "None",
     beaker_image |-> "None", docker_image |-> "None", arguments |-> <<>>]
NoExp == [id |-> 0, name |-> <<>>]
NoError == [type |-> "None", line |-> 0, about |-> <<>>]

\* cluster names of the catalog and the patterns tried against it
ClusterNames == {<<"a", "/", "x">>, <<"a", "/", "y">>, <<"b", "/", "z">>}
Patterns == {<<"a", "/", "x">>, <<"a", "/", "*">>, <<"*", "/", "z">>,
             <<"b", "/", "?">>, <<"c", "/", "*">>}

\* characters random.choice draws the retry suffix from (a sample of
\* string.ascii_lowercase and of string.digits)
Letters == {"a", "b"}
Digits == {"7"}

RunName == <<"r", "u", "n">>
DefaultName == <<"d", "f", "l", "t">>

BaseOpt ==
    [arg |-> <<"python">>, name |-> RunName, yes |-> TRUE,
     beaker_image |-> "DEFAULT_IMAGE", docker_image |-> "None",
     budget |-> "ai2/acct", env |-> <<>>, env_secret |-> <<>>, mount |-> <<>>,
     cluster |-> <<>>, priority |-> "None",
     replicas |-> <<>>, leader_selection |-> FALSE, host_networking |-> FALSE,
     dry_run |-> FALSE, stop_preemptible |-> FALSE, timeout |-> 0,
     show_logs |-> TRUE]

BaseWorld ==
    [catalog |-> ClusterNames, is_public |-> TRUE, secret_exists |-> TRUE,
     image_exists |-> TRUE, always_conflict |-> FALSE, conflicts |-> 0,
     term_is_gantry_error |-> FALSE]

\* the pattern lists of at most n patterns
RECURSIVE PatternLists(_)
PatternLists(n) ==
    IF n = 0 THEN {<<>>}
    ELSE LET shorter == PatternLists(n - 1)
         IN  shorter \cup {Append(l, p) : l \in shorter, p \in Patterns}

\* longest --cluster list tried against the catalog
MaxPatterns == 2

\* backends: one that rejects the first k create calls with a name conflict
\* and accepts the next, for each k, and one that rejects every create call
Backends ==
    {[always_conflict |-> FALSE, conflicts |-> k] : k \in 0..MaxConflicts}
        \cup {[always_conflict |-> TRUE, conflicts |-> 0]}

\* runs that exercise submission, preemption and the watch phase
SubmissionRuns ==
    {[opt |-> [BaseOpt EXCEPT !.dry_run = d, !.stop_preemptible = sp, !.timeout = t,
                              !.show_logs = sl, !.priority = pr, !.cluster = cl],
      world |-> [BaseWorld EXCEPT !.always_conflict = be.always_conflict,
                                  !.conflicts = be.conflicts,
                                  !.term_is_gantry_error = tg]] :
        d \in BOOLEAN, sp \in BOOLEAN, t \in {-1, 0, 1}, sl \in BOOLEAN,
        pr \in {"None", "preemptible", "normal"},
        cl \in {<<>>, <<<<"a", "/", "x">>>>, <<<<"a", "/", "*">>>>,
                <<<<"*", "/", "z">>, <<"b", "/", "?">>>>},
        be \in Backends, tg \in BOOLEAN}

\* runs that exercise the checks on the shape of the options
ShapeRuns ==
    {[opt |-> [BaseOpt EXCEPT !.arg = a, !.beaker_image = bi, !.docker_image = di,
                              !.budget = b, !.name = n, !.yes = y, !.env = e,
                              !.mount = m, !.dry_run = d],
      world |-> [BaseWorld EXCEPT !.is_public = pub, !.secret_exists = se,
                                  !.image_exists = ie]] :
        a \in {<<>>, <<"python">>},
        bi \in {"None", "DEFAULT_IMAGE", "my-image"}, di \in {"None", "python:3.10"},
        b \in {"None", "", "ai2/acct"}, n \in {<<>>, RunName}, y \in BOOLEAN,
        e \in {<<>>, <<<<"A", "=", "1">>>>, <<<<"A">>>>},
        m \in {<<>>, <<<<"h", ":", "t">>>>, <<<<"h", ":", "t", ":", "r">>>>},
        d \in BOOLEAN, pub \in BOOLEAN, se \in BOOLEAN, ie \in BOOLEAN}

\* runs that exercise the expansion of --cluster patterns
ClusterRuns ==
    {[opt |-> [BaseOpt EXCEPT !.cluster = cl, !.stop_preemptible = sp,
                              !.priority = "normal"],
      world |-> [BaseWorld EXCEPT !.catalog = cat]] :
        cl \in PatternLists(MaxPatterns), cat \in SUBSET ClusterNames,
        sp \in BOOLEAN}

\* --env strings: well formed, with an empty value, without `=`, with two `=`
EnvStrings == {<<"A", "=", "1">>, <<"B", "=">>, <<"A">>, <<"A", "=", "1", "=", "2">>}

\* the --env lists of at most n strings
RECURSIVE EnvLists(_)
EnvLists(n) ==
    IF n = 0 THEN {<<>>}
    ELSE LET shorter == EnvLists(n - 1)
         IN  shorter \cup {Append(l, e) : l \in shorter, e \in EnvStrings}

\* longest --env list
MaxOptions == 2

\* runs that exercise the parsing of --env, --env-secret and --mount
OptionRuns ==
    {[opt |-> [BaseOpt EXCEPT !.env = e, !.env_secret = es, !.mount = m,
                              !.dry_run = TRUE],
      world |-> BaseWorld] :
        e \in EnvLists(MaxOptions),
        es \in {<<>>, <<<<"S", "=", "t">>>>, <<<<"S">>>>,
                <<<<"S", "=", "t">>, <<"T", "=", "=">>>>},
        m \in {<<>>, <<<<"h", ":", "t">>>>, <<<<"h">>>>,
               <<<<"h", ":", "t">>, <<"g", ":", "t", ":", "r">>>>}}

\* runs that exercise the replica options of the spec
ReplicaRuns ==
    {[opt |-> [BaseOpt EXCEPT !.leader_selection = ls, !.host_networking = hn,
                              !.replicas = r, !.dry_run = TRUE],
      world |-> BaseWorld] :
        ls \in BOOLEAN, hn \in BOOLEAN, r \in {<<>>, <<0>>, <<2>>}}

Runs == SubmissionRuns \cup ShapeRuns \cup ClusterRuns \cup OptionRuns \cup ReplicaRuns

----------------------------------------------------------------------------
(* State after `run` is entered, before its first statement *)

Init ==
    \E r \in Runs :
        /\ opt = r.opt
        /\ world = r.world
        /\ pc = "check_args"
        /\ budget = r.opt.budget
        /\ env_vars = <<>>
        /\ env_secrets = <<>>
        /\ mounts = <<>>
        /\ cluster = r.opt.cluster
        /\ priority = r.opt.priority
        /\ spec = NoSpec
        /\ spec2 = NoSpec
        /\ name = r.opt.name
        /\ name_prefix = <<>>
        /\ createCalls = 0
        /\ tried = {}
        /\ experiment = NoExp
        /\ calls = <<>>
        /\ caught = "None"
        /\ displayed = FALSE
        /\ sigs = <<>>
        /\ exitCode = -1
        /\ error = NoError
        /\ traceback = FALSE

----------------------------------------------------------------------------
(* Leaving the process *)

\* GantryError subclasses: ConfigurationError is one; whether TermInterrupt
\* is one is decided in gantry/exceptions.py, so both cases are kept
IsGantryError(exctype) ==
    \/ exctype = "ConfigurationError"
    \/ exctype = "TermInterrupt" /\ world.term_is_gantry_error

\* excepthook: TRUE iff a stack trace is printed for an uncaught exception
excepthook(exctype) ==
    IF IsGantryError(exctype) THEN FALSE
    ELSE IF exctype \in {"KeyboardInterrupt", "TermInterrupt"} THEN TRUE
    ELSE TRUE

Exit(code, err, tb) ==
    /\ pc' = "exited"
    /\ exitCode' = code
    /\ error' = err
    /\ traceback' = tb

\* an exception nothing catches: excepthook reports it, the status is 1
Raise(exctype, line, about) ==
    Exit(1, [type |-> exctype, line |-> line, about |-> about], excepthook(exctype))

\* Flow with the option strings and the clusters validated after submission
FlowSubmitFirst(p) ==
    CASE p = "check_args" -> "workspace"
      [] p = "workspace" -> "build"
      [] p = "build" -> "name"
      [] p = "name" -> "dry_run"
      [] p = "dry_run" -> "create"
      [] p = "create" -> "preempt"
      [] p = "preempt" -> "options"
      [] p = "options" -> "clusters"
      [] p = "clusters" -> "timeout"
      [] p = "timeout" -> "watch"
      [] p = "watch" -> "watching"
      [] p = "watching" -> "display"
      [] OTHER -> "exited"

\* the order of the statements of run: the step that follows step p when p
\* neither raises nor returns
Flow(p) ==
    CASE p = "check_args" -> "workspace"
      [] p = "workspace" -> "options"
      [] p = "options" -> "clusters"
      [] p = "clusters" -> "build"
      [] p = "build" -> "name"
      [] p = "name" -> "dry_run"
      [] p = "dry_run" -> "create"
      [] p = "create" -> "preempt"
      [] p = "preempt" -> "timeout"
      [] p = "timeout" -> "watch"
      [] p = "watch" -> "watching"
      [] p = "watching" -> "display"
      [] OTHER -> "exited"

Continue ==
    /\ pc' = Flow(pc)
    /\ UNCHANGED <<exitCode, error, traceback>>

Call(op, arg, exp) == [op |-> op, arg |-> arg, exp |-> exp]

----------------------------------------------------------------------------
(* run, lines 382-400: arguments, image choice, budget *)

\* ExactlyOneImage that only rejects the absence of both images
AtLeastOneImage(beaker_image, docker_image) ==
    beaker_image # "None" \/ docker_image # "None"

ExactlyOneImage(beaker_image, docker_image) ==
    ~((beaker_image = "None") = (docker_image = "None"))

CheckArgs ==
    /\ pc = "check_args"
    /\ IF opt.arg = <<>>
       THEN Raise("ConfigurationError", 383, <<>>) /\ UNCHANGED budget
       ELSE IF ~ExactlyOneImage(opt.beaker_image, opt.docker_image)
       THEN Raise("ConfigurationError", 388, <<>>) /\ UNCHANGED budget
       ELSE \E answer \in {"", "ai2/acct"} :
               /\ budget' = IF budget = "None" THEN answer ELSE budget
               /\ IF budget' = ""
                  THEN Raise("ConfigurationError", 400, <<>>)
                  ELSE Continue
    /\ UNCHANGED <<opt, world, env_vars, env_secrets, mounts, cluster, priority, spec, spec2,
                   name, name_prefix, createCalls, tried, experiment, calls, caught,
                   displayed, sigs>>

(* run, lines 414-446: the Beaker image and the GitHub token secret *)
EnsureWorkspace ==
    /\ pc = "workspace"
    /\ IF opt.beaker_image \notin {"None", "DEFAULT_IMAGE"} /\ ~world.image_exists
       THEN Raise("ConfigurationError", 418, <<>>) /\ UNCHANGED calls
       ELSE IF ~world.is_public /\ ~world.secret_exists
       THEN \E gh_token \in {"", "token"} :
               IF gh_token = ""
               THEN Raise("ConfigurationError", 438, <<>>) /\ UNCHANGED calls
               ELSE /\ calls' = Append(calls, Call("secret.write", <<>>, 0))
                    /\ Continue
       ELSE Continue /\ UNCHANGED calls
    /\ UNCHANGED <<opt, world, budget, env_vars, env_secrets, mounts, cluster, priority,
                   spec, spec2, name, name_prefix, createCalls, tried, experiment, caught,
                   displayed, sigs>>

----------------------------------------------------------------------------
(* run, lines 451-473: --env, --env-secret, --mount *)

\* `a, b = e.split(sep)` succeeds iff the split gives exactly two fields
Unpacks(e, sep) == Len(Split(e, sep)) = 2

\* index of the first string of the list that does not unpack, 0 if none
RECURSIVE FirstBad(_, _, _)
FirstBad(list, sep, i) ==
    IF i > Len(list) THEN 0
    ELSE IF ~Unpacks(list[i], sep) THEN i
    ELSE FirstBad(list, sep, i + 1)

\* the (name, value) pairs appended for the first n strings of the list
Pairs(list, sep, n) ==
    [i \in 1..n |-> <<Split(list[i], sep)[1], Split(list[i], sep)[2]>>]

ParseOptions ==
    /\ pc = "options"
    /\ LET be == FirstBad(opt.env, "=", 1)
           bs == FirstBad(opt.env_secret, "=", 1)
           bm == FirstBad(opt.mount, ":", 1)
       IN  IF be # 0
           THEN /\ env_vars' = Pairs(opt.env, "=", be - 1)
                /\ UNCHANGED <<env_secrets, mounts>>
                \* line 456 is not an f-string: the message holds the text {e}
                /\ Raise("ValueError", 456, <<"{", "e", "}">>)
           ELSE IF bs # 0
           THEN /\ env_vars' = Pairs(opt.env, "=", Len(opt.env))
                /\ env_secrets' = Pairs(opt.env_secret, "=", bs - 1)
                /\ UNCHANGED mounts
                /\ Raise("ValueError", 464, opt.env_secret[bs])
           ELSE IF bm # 0
           THEN /\ env_vars' = Pairs(opt.env, "=", Len(opt.env))
                /\ env_secrets' = Pairs(opt.env_secret, "=", Len(opt.env_secret))
                /\ mounts' = Pairs(opt.mount, ":", bm - 1)
                /\ Raise("ValueError", 472, opt.mount[bm])
           ELSE /\ env_vars' = Pairs(opt.env, "=", Len(opt.env))
                /\ env_secrets' = Pairs(opt.env_secret, "=", Len(opt.env_secret))
                /\ mounts' = Pairs(opt.mount, ":", Len(opt.mount))
                /\ Continue
    /\ UNCHANGED <<opt, world, budget, cluster, priority, spec, spec2, name, name_prefix,
                   createCalls, tried, experiment, calls, caught, displayed, sigs>>

----------------------------------------------------------------------------
(* run, lines 475-485: cluster patterns against the catalog *)

\* matching_clusters of one pattern, as a set
Matching(pat, catalog) == {n \in catalog : fnmatch(n, pat)}

\* index of the first pattern, in list order, that matches nothing; 0 if none
RECURSIVE FirstUnmatched(_, _, _)
FirstUnmatched(pats, catalog, i) ==
    IF i > Len(pats) THEN 0
    ELSE IF Matching(pats[i], catalog) = {} THEN i
    ELSE FirstUnmatched(pats, catalog, i + 1)

\* FinalClusters keeping only the matches of the last pattern
FinalClustersOfLast(pats, catalog) == Matching(pats[Len(pats)], catalog)

\* set(final_clusters)
FinalClusters(pats, catalog) ==
    UNION {Matching(pats[i], catalog) : i \in 1..Len(pats)}

ValidateClusters ==
    /\ pc = "clusters"
    /\ IF cluster = <<>>
       THEN Continue /\ UNCHANGED cluster
       ELSE LET bad == FirstUnmatched(cluster, world.catalog, 1)
            IN  IF bad # 0
                THEN /\ Raise("ConfigurationError", 484, cluster[bad])
                     /\ UNCHANGED cluster
                ELSE /\ cluster' \in Orderings(FinalClusters(cluster, world.catalog))
                     /\ Continue
    /\ UNCHANGED <<opt, world, budget, env_vars, env_secrets, mounts, priority, spec, spec2,
                   name, name_prefix, createCalls, tried, experiment, calls, caught,
                   displayed, sigs>>

----------------------------------------------------------------------------
(* run, lines 487-524: default priority and the spec builder's arguments *)

\* bool(replicas) for an optional int: <<>> is None
Truthy(replicas) == replicas # <<>> /\ replicas[1] # 0

\* DefaultPriority without the test for clusters
DefaultPriorityAnyCluster(clusters, prio) ==
    IF prio = "None" THEN "preemptible" ELSE prio

DefaultPriority(clusters, prio) ==
    IF clusters = <<>> /\ prio = "None" THEN "preemptible" ELSE prio

\* HostNetworking that passes the flag through
HostNetworkingFlagOnly(host_networking, replicas, leader_selection) ==
    host_networking

HostNetworking(host_networking, replicas, leader_selection) ==
    host_networking \/ (Truthy(replicas) /\ leader_selection)

\* lines 492-524: the keyword arguments of util.build_experiment_spec
SpecArguments(clusters, prio) ==
    [built |-> TRUE, clusters |-> clusters, priority |-> prio,
     host_networking |-> HostNetworking(opt.host_networking, opt.replicas,
                                        opt.leader_selection),
     leader_selection |-> opt.leader_selection, replicas |-> opt.replicas,
     env |-> env_vars, env_secrets |-> env_secrets, mounts |-> mounts,
     budget |-> budget, beaker_image |-> opt.beaker_image,
     docker_image |-> opt.docker_image, arguments |-> opt.arg]

\* the second execution resolves the same set of clusters, in whatever order
\* its own list(set(...)) gives (line 485)
BuildSpec ==
    /\ pc = "build"
    /\ priority' = DefaultPriority(cluster, priority)
    /\ spec' = SpecArguments(cluster, priority')
    /\ \E cluster2 \in Orderings(Range(cluster)) :
          spec2' = SpecArguments(cluster2, DefaultPriority(cluster2, priority))
    /\ Continue
    /\ UNCHANGED <<opt, world, budget, env_vars, env_secrets, mounts, cluster, name,
                   name_prefix, createCalls, tried, experiment, calls, caught,
                   displayed, sigs>>

(* run, lines 539-549: the experiment's name *)
ChooseName ==
    /\ pc = "name"
    /\ IF name # <<>>
       THEN Continue /\ UNCHANGED name
       ELSE \E answer \in {<<>>, DefaultName} :
               /\ name' = IF opt.yes THEN DefaultName ELSE answer
               /\ IF name' = <<>>
                  THEN Raise("ConfigurationError", 549, <<>>)
                  ELSE Continue
    /\ UNCHANGED <<opt, world, budget, env_vars, env_secrets, mounts, cluster, priority,
                   spec, spec2, name_prefix, createCalls, tried, experiment, calls, caught,
                   displayed, sigs>>

(* run, lines 551-562: a dry run prints the spec and returns *)
\* DryRunReturns with the flag ignored
DryRunIgnored(dry_run) == FALSE

DryRunReturns(dry_run) == dry_run

DryRun ==
    /\ pc = "dry_run"
    /\ IF DryRunReturns(opt.dry_run)
       THEN Exit(0, NoError, FALSE) /\ UNCHANGED name_prefix
       ELSE name_prefix' = name /\ Continue
    /\ UNCHANGED <<opt, world, budget, env_vars, env_secrets, mounts, cluster, priority,
                   spec, spec2, name, createCalls, tried, experiment, calls, caught, displayed,
                   sigs>>

----------------------------------------------------------------------------
(* run, lines 563-577: submit, with a new name after every name conflict *)

\* the backend's answer to the next create call
Conflicts == world.always_conflict \/ createCalls < world.conflicts

\* the create-call counter, which stops counting at CreateCap
Counted(n) == IF n < CreateCap THEN n + 1 ELSE n

\* RetryName with the suffix appended to the name of the rejected attempt
RetryNameFromCurrent(current, prefix, suffix) == current \o <<"-">> \o suffix

\* lines 568-575: the name of the next attempt
RetryName(current, prefix, suffix) == prefix \o <<"-">> \o suffix

CreateConflict ==
    /\ pc = "create"
    /\ Conflicts
    /\ createCalls' = Counted(createCalls)
    /\ tried' = tried \cup {name}
    /\ \E l1 \in Letters, l2 \in Letters, d1 \in Digits, d2 \in Digits :
          name' = RetryName(name, name_prefix, <<l1, l2, d1, d2>>)
    /\ UNCHANGED <<opt, world, pc, budget, env_vars, env_secrets, mounts, cluster,
                   priority, spec, spec2, name_prefix, experiment, calls, caught, displayed,
                   sigs, exitCode, error, traceback>>

CreateAccepted ==
    /\ pc = "create"
    /\ ~Conflicts
    /\ createCalls' = Counted(createCalls)
    /\ tried' = tried \cup {name}
    /\ experiment' = [id |-> createCalls', name |-> name]
    /\ calls' = Append(calls, Call("create", name, createCalls'))
    /\ Continue
    /\ UNCHANGED <<opt, world, budget, env_vars, env_secrets, mounts, cluster, priority,
                   spec, spec2, name, name_prefix, caught, displayed, sigs>>

----------------------------------------------------------------------------
(* run, lines 579-592: preempt the jobs of the cluster *)

\* StopPreemptible without the test for more than one cluster
StopPreemptibleAnyCount(stop_preemptible, prio, clusters, dry_run) ==
    IF ~stop_preemptible THEN FALSE
    ELSE IF prio = "preemptible" THEN FALSE
    ELSE IF clusters = <<>> THEN FALSE
    ELSE ~dry_run

StopPreemptible(stop_preemptible, prio, clusters, dry_run) ==
    IF ~stop_preemptible THEN FALSE
    ELSE IF prio = "preemptible" THEN FALSE
    ELSE IF clusters = <<>> THEN FALSE
    ELSE IF Len(clusters) > 1 THEN FALSE
    ELSE ~dry_run

Preempt ==
    /\ pc = "preempt"
    /\ calls' = IF StopPreemptible(opt.stop_preemptible, priority, cluster, opt.dry_run)
                THEN Append(calls, Call("preempt_jobs", cluster[1], 0))
                ELSE calls
    /\ Continue
    /\ UNCHANGED <<opt, world, budget, env_vars, env_secrets, mounts, cluster, priority,
                   spec, spec2, name, name_prefix, createCalls, tried, experiment, caught,
                   displayed, sigs>>

----------------------------------------------------------------------------
(* run, lines 594-621: the watch phase *)

\* ReturnsRightAway testing for "no timeout" instead of 0
ReturnsWhenNegative(timeout) == timeout < 0

\* line 595
ReturnsRightAway(timeout) == timeout = 0

TimeoutCheck ==
    /\ pc = "timeout"
    /\ IF ReturnsRightAway(opt.timeout) THEN Exit(0, NoError, FALSE) ELSE Continue
    /\ UNCHANGED <<opt, world, budget, env_vars, env_secrets, mounts, cluster, priority,
                   spec, spec2, name, name_prefix, createCalls, tried, experiment, calls,
                   caught, displayed, sigs>>

\* lines 600-605: the call the watch suspends in
WatchCall(show_logs) == IF show_logs THEN "follow" ELSE "wait_for"

StartWatch ==
    /\ pc = "watch"
    /\ calls' = Append(calls, Call(WatchCall(opt.show_logs), experiment.name,
                                   experiment.id))
    /\ Continue
    /\ UNCHANGED <<opt, world, budget, env_vars, env_secrets, mounts, cluster, priority,
                   spec, spec2, name, name_prefix, createCalls, tried, experiment, caught,
                   displayed, sigs>>

\* the job reached a terminal state
WatchDone ==
    /\ pc = "watching"
    /\ Continue
    /\ UNCHANGED <<opt, world, budget, env_vars, env_secrets, mounts, cluster, priority,
                   spec, spec2, name, name_prefix, createCalls, tried, experiment, calls,
                   caught, displayed, sigs>>

\* InTry with the try opened right after the submit loop
InTryFromPreempt(p) == p \in {"preempt", "timeout", "watch", "watching"}

\* lines 599-607: the statements the try covers
InTry(p) == p \in {"watch", "watching"}

\* Handler with TermInterrupt left out of the first except clause
HandlerWithoutTerm(exctype) ==
    IF exctype = "JobTimeoutError" THEN "except_stop" ELSE "except_interrupt"

\* lines 608 and 613: the handler an exception raised inside the try goes to
Handler(exctype) ==
    IF exctype \in {"TermInterrupt", "JobTimeoutError"} THEN "except_stop"
    ELSE IF exctype = "KeyboardInterrupt" THEN "except_interrupt"
    ELSE "uncaught"

\* JobTimeoutError: the timeout (a positive one; -1 waits indefinitely,
\* lines 254-256) ran out before the job was terminal
WatchTimeout ==
    /\ pc = "watching"
    /\ opt.timeout > 0
    /\ caught' = "JobTimeoutError"
    /\ pc' = Handler("JobTimeoutError")
    /\ UNCHANGED <<opt, world, budget, env_vars, env_secrets, mounts, cluster, priority,
                   spec, spec2, name, name_prefix, createCalls, tried, experiment, calls,
                   displayed, sigs, exitCode, error, traceback>>

\* StopCalls with the stop request issued twice
StopCallsTwice(exp) ==
    <<Call("stop", exp.name, exp.id), Call("stop", exp.name, exp.id)>>

\* lines 609-612: the backend calls of the first handler
StopCalls(exp) == <<Call("stop", exp.name, exp.id)>>

HandleStop ==
    /\ pc = "except_stop"
    /\ calls' = calls \o StopCalls(experiment)
    /\ Exit(1, NoError, FALSE)
    /\ UNCHANGED <<opt, world, budget, env_vars, env_secrets, mounts, cluster, priority,
                   spec, spec2, name, name_prefix, createCalls, tried, experiment, caught,
                   displayed, sigs>>

\* lines 613-619: the user is told how to stop the experiment
HandleInterrupt ==
    /\ pc = "except_interrupt"
    /\ Exit(1, NoError, FALSE)
    /\ UNCHANGED <<opt, world, budget, env_vars, env_secrets, mounts, cluster, priority,
                   spec, spec2, name, name_prefix, createCalls, tried, experiment, calls,
                   caught, displayed, sigs>>

\* line 621
Display ==
    /\ pc = "display"
    /\ displayed' = TRUE
    /\ Exit(0, NoError, FALSE)
    /\ UNCHANGED <<opt, world, budget, env_vars, env_secrets, mounts, cluster, priority,
                   spec, spec2, name, name_prefix, createCalls, tried, experiment, calls,
                   caught, sigs>>

----------------------------------------------------------------------------
(* Signals: SIGTERM raises TermInterrupt (handle_sigterm), SIGINT raises    *)
(* KeyboardInterrupt, at whatever statement run has reached                 *)

handle_sigterm(sig) ==
    IF sig = "SIGTERM" THEN "TermInterrupt" ELSE "KeyboardInterrupt"

Signal(sig) ==
    /\ pc # "exited"
    /\ sigs' = Append(sigs, [sig |-> sig, at |-> pc])
    /\ LET exc == handle_sigterm(sig)
       IN  IF InTry(pc)
           THEN /\ caught' = exc
                /\ pc' = Handler(exc)
                /\ UNCHANGED <<exitCode, error, traceback>>
           ELSE /\ Raise(exc, 0, <<>>)
                /\ UNCHANGED caught
    /\ UNCHANGED <<opt, world, budget, env_vars, env_secrets, mounts, cluster, priority,
                   spec, spec2, name, name_prefix, createCalls, tried, experiment, calls,
                   displayed>>

----------------------------------------------------------------------------
(* Specifications *)

\* the statements of run
RunStep ==
    \/ CheckArgs
    \/ EnsureWorkspace
    \/ ParseOptions
    \/ ValidateClusters
    \/ BuildSpec
    \/ ChooseName
    \/ DryRun
    \/ CreateConflict
    \/ CreateAccepted
    \/ Preempt
    \/ TimeoutCheck
    \/ StartWatch
    \/ WatchDone
    \/ WatchTimeout
    \/ HandleStop
    \/ HandleInterrupt
    \/ Display

Next ==
    \/ RunStep
    \/ Signal("SIGTERM")
    \/ Signal("SIGINT")

Spec == Init /\ [][Next]_vars

\* the interpreter keeps executing run while it has a statement to execute;
\* nothing obliges a signal to arrive
FairSpec == Init /\ [][Next]_vars /\ WF_vars(RunStep)

----------------------------------------------------------------------------
(* Vocabulary of the properties *)

Count(op) == Cardinality({i \in 1..Len(calls) : calls[i].op = op})

HasCall(op) == \E i \in 1..Len(calls) : calls[i].op = op

\* the call was issued for the experiment the accepted create call returned
ForExperiment(c) == c.exp = experiment.id /\ c.arg = experiment.name

\* the name the user asked for (the default name when none was given)
RequestedName == IF opt.name # <<>> THEN opt.name ELSE DefaultName

\* n is the original name, a dash, two letters and two digits
IsRetryName(n, original) ==
    LET k == Len(original)
    IN  /\ Len(n) = k + 5
        /\ SubSeq(n, 1, k) = original
        /\ n[k + 1] = "-"
        /\ n[k + 2] \in Letters
        /\ n[k + 3] \in Letters
        /\ n[k + 4] \in Digits
        /\ n[k + 5] \in Digits

\* run is past the submit loop and has not left the process
PastCreate ==
    pc \in {"preempt", "timeout", "watch", "watching", "except_stop",
            "except_interrupt", "display"}

----------------------------------------------------------------------------
(* C1: against a backend that rejects the first k create calls with a name  *)
(* conflict and accepts call k+1, run makes exactly k+1 create calls,       *)
(* leaves the loop only through the accepted call and goes on with the      *)
(* experiment it returned; the first call uses the requested name, every    *)
(* retry uses the requested name plus a dash, two letters and two digits    *)
(* (never a suffix on a suffix); a conflict is never reported as an error.  *)
C1_SubmitWithRetry ==
    /\ (pc = "create" /\ createCalls = 0) => name = RequestedName
    /\ (pc = "create" /\ createCalls > 0) =>
            IsRetryName(name, RequestedName) /\ name # RequestedName
    /\ \A n \in tried : n = RequestedName \/ IsRetryName(n, RequestedName)
    /\ ~world.always_conflict => createCalls <= world.conflicts + 1
    /\ PastCreate => experiment # NoExp
    /\ experiment # NoExp =>
            /\ ~world.always_conflict
            /\ createCalls = world.conflicts + 1
            /\ experiment.id = createCalls
            /\ experiment.name = name
            /\ world.conflicts = 0 => name = RequestedName
            /\ world.conflicts > 0 => IsRetryName(name, RequestedName)
            /\ Count("create") = 1
            /\ \A i \in 1..Len(calls) :
                  calls[i].op \in {"create", "follow", "wait_for", "stop"} =>
                      ForExperiment(calls[i])
    /\ experiment = NoExp => ~HasCall("create")
    /\ error.type # "ExperimentConflict"

\* two conflicts, then the accepted call
C1_Witness ==
    /\ pc = "preempt"
    /\ world.conflicts = 2
    /\ createCalls = 3
    /\ experiment.name # RequestedName

----------------------------------------------------------------------------
----------------------------------------------------------------------------
(* C3: when the watch (log-following or plain wait) ends with a timeout     *)
(* before the job is terminal, run issues exactly one stop request, for the *)
(* submitted experiment, hands nothing to the results display and exits     *)
(* with a non-zero status.                                                  *)
C3_TimeoutPath ==
    /\ caught = "JobTimeoutError" =>
            /\ opt.timeout > 0
            /\ ~displayed
            /\ Count("stop") <= 1
            /\ pc \in {"except_stop", "exited"}
    /\ (pc = "exited" /\ caught = "JobTimeoutError" /\ sigs = <<>>) =>
            /\ Count("stop") = 1
            /\ ForExperiment(calls[Len(calls)])
            /\ calls[Len(calls)].op = "stop"
            /\ exitCode # 0

C3_Witness ==
    /\ pc = "exited"
    /\ caught = "JobTimeoutError"
    /\ sigs = <<>>
    /\ Count("stop") = 1
    /\ opt.show_logs

----------------------------------------------------------------------------
(* C5: with a timeout of 0, run returns right after submission and the      *)
(* optional preemption step: no wait call, no log-follow call, no stop call *)
(* and no results display, whatever show_logs is.                           *)
C5_ZeroTimeout ==
    opt.timeout = 0 =>
        /\ ~HasCall("follow")
        /\ ~HasCall("wait_for")
        /\ ~HasCall("stop")
        /\ ~displayed
        /\ pc \notin {"watch", "watching", "except_stop", "except_interrupt", "display"}
        /\ (pc = "exited" /\ experiment # NoExp /\ sigs = <<>>) =>
                exitCode = 0 /\ error = NoError

C5_Witness ==
    /\ opt.timeout = 0
    /\ ~opt.show_logs
    /\ pc = "exited"
    /\ exitCode = 0
    /\ experiment # NoExp
    /\ HasCall("preempt_jobs")

----------------------------------------------------------------------------
(* C6: the submit loop ends for every backend: run reaches the submitted    *)
(* state or an error, also when every create call is answered with a name   *)
(* conflict.                                                                *)
C6_RetryTerminates == <>(experiment # NoExp \/ pc = "exited")

----------------------------------------------------------------------------
(* C4 as claimed: a run that ends with a configuration-shape error (image   *)
(* choice, empty arguments, empty budget, malformed --env, --env-secret or  *)
(* --mount string, unmatched cluster pattern) has issued no mutating        *)
(* backend call before the error.                                           *)
C4_NoMutationBeforeShapeError ==
    (pc = "exited" /\ error.line \in {383, 388, 400, 456, 464, 472, 484}) =>
        calls = <<>>

(* C4 as amended: the errors of the image choice, the empty arguments and   *)
(* the empty budget are raised before any backend call; a malformed --env,  *)
(* --env-secret or --mount string and an unmatched cluster pattern are      *)
(* raised before any experiment create, preempt or stop request, but after  *)
(* the GitHub token step, which may already have written the token secret.  *)
C4_NoSubmissionBeforeShapeError ==
    /\ (pc = "exited" /\ error.line \in {383, 388, 400}) => calls = <<>>
    /\ (pc = "exited" /\ error.line \in {456, 464, 472, 484}) =>
            /\ createCalls = 0
            /\ experiment = NoExp
            /\ ~HasCall("create")
            /\ ~HasCall("preempt_jobs")
            /\ ~HasCall("stop")
            /\ Len(calls) <= 1
            /\ \A i \in 1..Len(calls) : calls[i].op = "secret.write"

\* the token secret is written, then the --env string is found malformed
C4_Witness ==
    /\ pc = "exited"
    /\ error.line = 456
    /\ HasCall("secret.write")

----------------------------------------------------------------------------
(* C7: a preempt request is issued iff stop_preemptible is set, the         *)
(* priority after defaulting is not preemptible and the resolved,           *)
(* de-duplicated cluster list has exactly one element; it is issued once,   *)
(* for that cluster, after the accepted create call. In every other case    *)
(* none is issued and run goes on to the timeout check without an error.    *)
PreemptCondition ==
    /\ opt.stop_preemptible
    /\ priority # "preemptible"
    /\ Len(cluster) = 1

\* run has executed the preemption step
PastPreempt ==
    \/ pc \in {"timeout", "watch", "watching", "except_stop", "except_interrupt",
               "display"}
    \/ pc = "exited" /\ experiment # NoExp /\ (error = NoError \/ caught # "None")

C7_Preemption ==
    /\ Count("preempt_jobs") <= 1
    /\ \A i \in 1..Len(calls) :
          calls[i].op = "preempt_jobs" =>
              /\ PreemptCondition
              /\ calls[i].arg = cluster[1]
              /\ i > 1
              /\ calls[i - 1].op = "create"
    /\ PastPreempt => (HasCall("preempt_jobs") <=> PreemptCondition)
    /\ (pc = "exited" /\ experiment # NoExp) =>
            error.type \in {"None", "TermInterrupt", "KeyboardInterrupt"}

\* two patterns that resolve to the same single cluster
C7_Witness ==
    /\ HasCall("preempt_jobs")
    /\ Len(opt.cluster) = 2
    /\ cluster = <<(<<"b", "/", "z">>)>>
    /\ pc = "timeout"

----------------------------------------------------------------------------
----------------------------------------------------------------------------
(* C9: a dry run with valid inputs prints the spec and ends with status 0,  *)
(* and no dry run issues an experiment-create, preempt, wait, log-follow or *)
(* stop request, whatever timeout, show_logs and stop_preemptible are.      *)

\* every string of the list splits into exactly two fields
WellFormed(list, sep) == \A i \in 1..Len(list) : Len(Split(list[i], sep)) = 2

\* options and environment that pass every check of run without a prompt
ValidInputs ==
    /\ opt.arg # <<>>
    /\ (opt.beaker_image = "None") # (opt.docker_image = "None")
    /\ opt.budget \notin {"None", ""}
    /\ opt.beaker_image \in {"None", "DEFAULT_IMAGE"} \/ world.image_exists
    /\ world.is_public \/ world.secret_exists
    /\ WellFormed(opt.env, "=")
    /\ WellFormed(opt.env_secret, "=")
    /\ WellFormed(opt.mount, ":")
    /\ \A i \in 1..Len(opt.cluster) :
          \E n \in world.catalog : fnmatch(n, opt.cluster[i])
    /\ opt.name # <<>> \/ opt.yes

C9_DryRun ==
    opt.dry_run =>
        /\ createCalls = 0
        /\ experiment = NoExp
        /\ \A i \in 1..Len(calls) : calls[i].op = "secret.write"
        /\ ~displayed
        /\ pc \in {"check_args", "workspace", "options", "clusters", "build", "name",
                   "dry_run", "exited"}
        /\ (pc = "exited" /\ error = NoError) =>
                exitCode = 0 /\ spec.built /\ name # <<>>
        /\ (pc = "exited" /\ sigs = <<>> /\ ValidInputs) =>
                exitCode = 0 /\ error = NoError

C9_Witness ==
    /\ opt.dry_run
    /\ opt.timeout = 1
    /\ opt.show_logs
    /\ opt.stop_preemptible
    /\ Len(cluster) = 1
    /\ priority = "normal"
    /\ pc = "exited"
    /\ exitCode = 0

----------------------------------------------------------------------------
(* C10: for a non-empty pattern list, if every pattern matches a catalog    *)
(* name the resolved cluster list is the union of the matches, each cluster *)
(* once; otherwise run fails with a ConfigurationError naming the first     *)
(* pattern, in list order, without a match, and no create call is made.     *)

\* catalog names the i-th --cluster pattern matches
Matches(i) == {n \in world.catalog : fnmatch(n, opt.cluster[i])}

AllMatch == \A i \in 1..Len(opt.cluster) : Matches(i) # {}

C10_ClusterExpansion ==
    opt.cluster # <<>> =>
        /\ (pc \in {"check_args", "workspace", "options", "clusters"} \/ error.line = 484)
                => cluster = opt.cluster
        /\ (pc \notin {"check_args", "workspace", "options", "clusters", "exited"}
                \/ spec.built) =>
                /\ AllMatch
                /\ Range(cluster) = UNION {Matches(i) : i \in 1..Len(opt.cluster)}
                /\ Len(cluster) = Cardinality(Range(cluster))
        /\ spec.built => spec.clusters = cluster
        /\ ~AllMatch => ~spec.built /\ createCalls = 0 /\ experiment = NoExp
        /\ (~AllMatch /\ pc = "exited" /\ sigs = <<>> /\ error.type # "ValueError"
                /\ error.line \notin {383, 388, 400, 418, 438}) => error.line = 484
        /\ error.line = 484 =>
                /\ error.type = "ConfigurationError"
                /\ ~traceback
                /\ exitCode = 1
                /\ \E j \in 1..Len(opt.cluster) :
                      /\ error.about = opt.cluster[j]
                      /\ Matches(j) = {}
                      /\ \A i \in 1..(j - 1) : Matches(i) # {}
        /\ (opt.cluster = <<(<<"a", "/", "*">>)>> /\ world.catalog = ClusterNames
                /\ spec.built) =>
                Range(cluster) = {<<"a", "/", "x">>, <<"a", "/", "y">>}
        /\ (opt.cluster = <<(<<"c", "/", "*">>)>> /\ world.catalog = ClusterNames) =>
                ~spec.built

\* two patterns with a cluster in common: it appears once
C10_Witness ==
    /\ spec.built
    /\ Len(opt.cluster) = 2
    /\ Matches(1) \cap Matches(2) # {}
    /\ Matches(1) # Matches(2)
    /\ Len(cluster) = 2

----------------------------------------------------------------------------
(* C11: an --env or --env-secret string that does not split on `=` into     *)
(* exactly two fields, or a --mount string that does not split on `:` into  *)
(* exactly two fields, makes run fail with a ConfigurationError whose       *)
(* message names the offending string; well-formed strings are recorded as  *)
(* (name, value) pairs in input order.                                      *)

\* e is the first string of the list that does not split into two fields
FirstMalformed(e, list, sep) ==
    \E i \in 1..Len(list) :
        /\ list[i] = e
        /\ Len(Split(list[i], sep)) # 2
        /\ \A j \in 1..(i - 1) : Len(Split(list[j], sep)) = 2

\* the pairs of a list of well-formed strings, in input order
InOrder(pairs, list, sep) ==
    /\ Len(pairs) = Len(list)
    /\ \A i \in 1..Len(list) :
          pairs[i] = <<Split(list[i], sep)[1], Split(list[i], sep)[2]>>

C11_MalformedOptions ==
    /\ error.line \in {456, 464, 472} => error.type = "ConfigurationError"
    /\ error.line = 456 => FirstMalformed(error.about, opt.env, "=")
    /\ error.line = 464 => FirstMalformed(error.about, opt.env_secret, "=")
    /\ error.line = 472 => FirstMalformed(error.about, opt.mount, ":")
    /\ ~(WellFormed(opt.env, "=") /\ WellFormed(opt.env_secret, "=")
            /\ WellFormed(opt.mount, ":")) => ~spec.built
    /\ spec.built =>
            /\ InOrder(spec.env, opt.env, "=")
            /\ InOrder(spec.env_secrets, opt.env_secret, "=")
            /\ InOrder(spec.mounts, opt.mount, ":")

----------------------------------------------------------------------------
(* C12 as claimed: with leader_selection set, the host_networking value     *)
(* passed to the spec builder is true, whatever the host_networking flag    *)
(* and whether or not a replica count is set.                               *)
C12_LeaderImpliesHostNetworking ==
    (spec.built /\ opt.leader_selection) => spec.host_networking

(* C12 as amended: the host_networking value passed to the spec builder is  *)
(* true iff the host_networking flag is set, or leader_selection is set     *)
(* together with a non-zero replica count; with leader_selection set and    *)
(* the replica count unset or 0 it is the flag as given.                    *)
C12_HostNetworking ==
    spec.built =>
        /\ spec.host_networking <=>
              \/ opt.host_networking
              \/ opt.leader_selection /\ opt.replicas # <<>> /\ opt.replicas[1] # 0
        /\ spec.leader_selection = opt.leader_selection
        /\ spec.replicas = opt.replicas

\* leader selection with two replicas switches host networking on
C12_Witness ==
    /\ spec.built
    /\ opt.leader_selection
    /\ ~opt.host_networking
    /\ opt.replicas = <<2>>
    /\ spec.host_networking

----------------------------------------------------------------------------
(* C13: with no cluster and no explicit priority, the priority passed to    *)
(* the spec builder is preemptible; with an explicit priority, or at least  *)
(* one resolved cluster, it is the user's value (possibly unset).           *)
C13_DefaultPriority ==
    /\ ~spec.built => priority = opt.priority
    /\ spec.built =>
            /\ cluster = <<>> <=> opt.cluster = <<>>
            /\ priority = spec.priority
            /\ (opt.cluster = <<>> /\ opt.priority = "None") =>
                    spec.priority = "preemptible"
            /\ (opt.cluster # <<>> \/ opt.priority # "None") =>
                    spec.priority = opt.priority

\* clusters given, priority left unset: it stays unset
C13_Witness ==
    /\ spec.built
    /\ cluster # <<>>
    /\ opt.priority = "None"
    /\ spec.priority = "None"

----------------------------------------------------------------------------
(* C14: with both the Beaker image and the Docker image set, or neither,    *)
(* run fails with a ConfigurationError before any backend call; with        *)
(* exactly one of them set, this check passes.                              *)
BothImages == opt.beaker_image # "None" /\ opt.docker_image # "None"

NeitherImage == opt.beaker_image = "None" /\ opt.docker_image = "None"

----------------------------------------------------------------------------
(* C15: two executions of run with the same options, answers and cluster    *)
(* catalog pass the same arguments to the spec builder, the content and the *)
(* order of the resolved cluster list included.                             *)
C15_Deterministic == spec.built => spec = spec2

=============================================================================
